---- MODULE Spec2Model ----
(***************************************************************************)
(* The HTTP/2 connection driver of src/h2.rs: Http2::poll with its queue   *)
(* of Entry records, Entry::new, Entry::poll_payload and IoWrapper::read.  *)
(*                                                                         *)
(* One call of Http2::poll is a run of steps: the handshake or the         *)
(* keep-alive check, then passes of the inner loop.  A pass visits every   *)
(* entry (one step per entry: poll_payload, then the task), pops the       *)
(* finished head entries (one step per pop), and polls the protocol engine *)
(* and decides whether to return (one step).  Between two calls the        *)
(* environment acts: the timer fires, DATA frames arrive.                  *)
(***************************************************************************)
EXTENDS Integers, Sequences, FiniteSets

VARIABLES
    state,            \* Http2.state: "Handshake" | "Server" | "Empty"
    disconnected,     \* Http2.disconnected
    tasks,            \* Http2.tasks: the VecDeque<Entry>, front first
    keepalive_timer,  \* Http2.keepalive_timer: "None" | "Armed" | "Fired"
    router,           \* Http2.router: the handlers' prefixes, in order
    pc,               \* position in poll: "idle" | "tasks" | "cleanup"
    idx,              \* position of the for loop of line 80 in tasks
    not_ready,        \* the local not_ready of one pass of the loop
    result,           \* what the last call of poll returned ("none": running)
    created,          \* number of streams the engine has yielded
    removed,          \* ids of the entries popped, in the order popped
    env,              \* what the peer and the transport may still do
    ev,               \* the calls the last step made to its collaborators
    unread,           \* IoWrapper.unread: Option<Bytes>
    inner,            \* IoWrapper.inner: the bytes the transport still holds
    got,              \* the bytes IoWrapper::read has returned so far
    orig,             \* the opening buffer followed by the transport's bytes
    rd                \* the last IoWrapper::read: buffer size, result, source

conn_vars == <<state, disconnected, tasks, keepalive_timer, router, pc, idx,
               not_ready, result, created, removed, env, ev>>
io_vars == <<unread, inner, got, orig, rd>>
vars == <<conn_vars, io_vars>>

----------------------------------------------------------------------------
(* Bounds of the model *)

\* streams the peer opens on a connection whose requests carry no body
MaxStreams == 3
\* streams the peer opens on a connection whose requests carry bodies
BodyStreams == 1
\* DATA frames the peer sends over the connection
MaxChunks == 2
\* largest intake capacity the payload consumer reports
MaxCap == 2
\* streams the peer opens on a connection with a chosen router
RouteStreams == 1
\* streams the peer opens on a connection whose body calls may fail
FaultStreams == 2
\* largest intake capacity reported on such a connection
FaultCap == 1
\* handlers registered in the router
MaxHandlers == 2
\* length of a request path
MaxPath == 2
\* length of the opening buffer and of the transport's byte stream
MaxBytes == 2
\* largest caller buffer handed to IoWrapper::read
MaxBuf == 2

----------------------------------------------------------------------------
(* Helpers *)

Min(a, b) == IF a < b THEN a ELSE b

SeqsUpTo(S, n) == UNION {[1..k -> S] : k \in 0..n}

IsPrefix(p, s) == Len(p) <= Len(s) /\ SubSeq(s, 1, Len(p)) = p

\* str::starts_with (line 260)
starts_with(path, prefix) ==
    /\ Len(prefix) <= Len(path)
    /\ \A i \in 1..Len(prefix) : path[i] = prefix[i]

PathChars == {"a", "b"}
Paths == SeqsUpTo(PathChars, MaxPath)
\* the prefixes handlers are registered with
Prefixes == {<<>>, <<"a">>, <<"b">>, <<"a", "b">>}
Routers == SeqsUpTo(Prefixes, MaxHandlers)

\* the task of Task::reply(HTTPNotFound) (line 266); handler i has task i
NotFound == 0

----------------------------------------------------------------------------
(* Entry: construction and dispatch (lines 214-277) *)

\* (mutant) the loop without its break: every handler that matches is
\* called and the last one's task is kept
RECURSIVE find_handler_no_break(_, _, _)
find_handler_no_break(rt, path, i) ==
    IF i > Len(rt) THEN [task |-> NotFound, calls |-> <<>>]
    ELSE LET rest == find_handler_no_break(rt, path, i + 1)
         IN  IF starts_with(path, rt[i])
             THEN [task |-> IF rest.calls = <<>> THEN i ELSE rest.task,
                   calls |-> <<i>> \o rest.calls]
             ELSE rest

\* The for loop of lines 259-264 from handler i on: the task and the handlers
\* whose handle() was called, in call order.
RECURSIVE find_handler(_, _, _)
find_handler(rt, path, i) ==
    IF i > Len(rt) THEN [task |-> NotFound, calls |-> <<>>]
    ELSE IF starts_with(path, rt[i]) THEN [task |-> i, calls |-> <<i>>]
    ELSE find_handler(rt, path, i + 1)

\* Entry::new.  end: the request's HEADERS frame carried END_STREAM.
\* recv (the RecvStream) is rbuf, the chunks it holds, rend, whether the end
\* of the body has arrived, and yielded, the chunks it has handed out;
\* payload (the sink) is fed, the chunks fed to it, and perr, its body error;
\* stream (the H2Writer) is resets, the resets sent on it; task is the
\* handler that made it and notified, the calls of Task::disconnected.
Entry_new(id, path, end, rt) ==
    LET h == find_handler(rt, path, 1)
    IN  [entry |-> [id |-> id, task |-> h.task, notified |-> 0,
                    rbuf |-> <<>>, rend |-> end, yielded |-> <<>>,
                    fed |-> <<>>, perr |-> FALSE, resets |-> 0,
                    eof |-> FALSE, error |-> FALSE, finished |-> FALSE,
                    reof |-> FALSE, capacity |-> 0],
         calls |-> h.calls]

----------------------------------------------------------------------------
(* Entry::poll_payload (lines 279-302) *)

\* RecvStream::poll (line 281): a fault, else the next chunk held, else the
\* end of the body if it has arrived, else not ready.
recv_poll(e, fault) ==
    IF fault THEN [out |-> "Err", e |-> e]
    ELSE IF e.rbuf # <<>> THEN
        [out |-> "Chunk",
         e |-> [e EXCEPT !.rbuf = Tail(@), !.yielded = Append(@, Head(e.rbuf))]]
    ELSE IF e.rend THEN [out |-> "None", e |-> e]
    ELSE [out |-> "NotReady", e |-> e]

\* (mutant) the chunk is put in front of what the sink holds
feed_data_front(e, chunk) == [e EXCEPT !.fed = <<chunk>> \o @]

\* PayloadWriter::feed_data on the entry's own sink (line 283)
feed_data(e, chunk) == [e EXCEPT !.fed = Append(@, chunk)]

\* (mutant) the fault is recorded on the entry as well as on its sink
set_error_on_entry(e) == [e EXCEPT !.perr = TRUE, !.error = TRUE]

\* PayloadWriter::set_error (lines 290, 298)
set_error(e) == [e EXCEPT !.perr = TRUE]

\* lines 281-292: one poll of the receiver and what is done with its answer
read_body(e, fault) ==
    LET r == recv_poll(e, fault)
    IN  [out |-> r.out,
         e |-> CASE r.out = "Chunk" -> feed_data(r.e, Head(e.rbuf))
                 [] r.out = "None" -> [r.e EXCEPT !.reof = TRUE]
                 [] r.out = "NotReady" -> r.e
                 [] r.out = "Err" -> set_error(r.e)]

\* lines 294-300: capacity is what the sink reports now; gfail: the release
\* fails.  grant is the sequence of amounts released (none or one).
grant_capacity(e, capacity, gfail) ==
    IF e.capacity # capacity
    THEN [grant |-> <<capacity>>,
          e |-> IF gfail THEN set_error([e EXCEPT !.capacity = capacity])
                ELSE [e EXCEPT !.capacity = capacity]]
    ELSE [grant |-> <<>>, e |-> e]

\* Entry::poll_payload
poll_payload(e, fault, capacity, gfail) ==
    IF ~e.reof
    THEN LET b == read_body(e, fault)
             g == grant_capacity(b.e, capacity, gfail)
         IN  [recv |-> b.out, grant |-> g.grant, e |-> g.e]
    ELSE [recv |-> "skip", grant |-> <<>>, e |-> e]

----------------------------------------------------------------------------
(* Http2::poll, the body of the for loop (lines 80-114) *)

\* (mutant) the test of line 101 without its negation
polls_completion_when_finished(e) == e.finished

\* (mutant) the task of an entry at eof is polled whether finished or not
polls_completion_always(e) == TRUE

\* line 101: the task of an entry at eof is polled for completion
polls_completion(e) == ~e.finished

\* The answers the entry's task can give when the loop reaches it: of
\* Task::poll_io while eof is not set, of Task::poll once it is and finished
\* is not, and no call otherwise.
TaskAnswers(e) ==
    IF ~e.eof THEN {"ReadyTrue", "ReadyFalse", "NotReady", "Err"}
    ELSE IF polls_completion(e) THEN {"Ready", "NotReady", "Err"}
    ELSE {"skip"}

\* (mutant) finished is set whatever poll_io's Ready carries
finished_on_any_ready(e, ready) == [e EXCEPT !.finished = TRUE]

\* lines 89-91: poll_io answered Ready(ready)
finished_on_ready(e, ready) ==
    IF ready THEN [e EXCEPT !.finished = TRUE] ELSE e

\* (mutant) no reset is sent
no_reset(e) == e

\* line 98: H2Writer::reset on the entry's stream
reset(e) == [e EXCEPT !.resets = @ + 1]

\* lines 84-113: call is the method of the task that was called, progress
\* whether not_ready is cleared.
poll_task(e, t) ==
    IF ~e.eof THEN
        CASE t = "ReadyTrue" ->
               [call |-> "poll_io", progress |-> TRUE,
                e |-> finished_on_ready([e EXCEPT !.eof = TRUE], TRUE)]
          [] t = "ReadyFalse" ->
               [call |-> "poll_io", progress |-> TRUE,
                e |-> finished_on_ready([e EXCEPT !.eof = TRUE], FALSE)]
          [] t = "NotReady" ->
               [call |-> "poll_io", progress |-> FALSE, e |-> e]
          [] t = "Err" ->
               [call |-> "poll_io", progress |-> FALSE,
                e |-> reset([e EXCEPT !.eof = TRUE, !.error = TRUE])]
    ELSE IF polls_completion(e) THEN
        CASE t = "NotReady" ->
               [call |-> "poll", progress |-> FALSE, e |-> e]
          [] t = "Ready" ->
               [call |-> "poll", progress |-> TRUE,
                e |-> [e EXCEPT !.finished = TRUE]]
          [] t = "Err" ->
               [call |-> "poll", progress |-> FALSE,
                e |-> [e EXCEPT !.error = TRUE, !.finished = TRUE]]
    ELSE [call |-> "none", progress |-> FALSE, e |-> e]

\* (mutant) the entry is popped as soon as its eof is set
prunable_on_eof(e) == e.eof \/ e.error

\* line 118: the entry may be popped
prunable(e) == (e.eof /\ e.finished) \/ e.error

\* (mutant) only the front entry is told
notify_front(q) ==
    [i \in 1..Len(q) |-> IF i = 1 THEN [q[i] EXCEPT !.notified = @ + 1]
                                  ELSE q[i]]

\* Task::disconnected on every entry of the queue (lines 131-133, 159-161)
notify_all(q) == [i \in 1..Len(q) |-> [q[i] EXCEPT !.notified = @ + 1]]

----------------------------------------------------------------------------
(* The calls a step made *)

NoEv == [op |-> "none", id |-> 0, recv |-> "skip", call |-> "none",
         ans |-> "skip", grant |-> <<>>, gfail |-> FALSE,
         engine |-> "skip", path |-> <<>>, calls |-> <<>>, hs |-> "skip"]

\* a visit of entry id: the receiver's answer, the method of the task that
\* was called and its answer, the amounts released and whether that failed
EntryEv(id, recv, call, ans, grant, gfail) ==
    [NoEv EXCEPT !.op = "entry", !.id = id, !.recv = recv, !.call = call,
                 !.ans = ans, !.grant = grant, !.gfail = gfail]

EngineEv(out, path, calls) ==
    [NoEv EXCEPT !.op = "engine", !.engine = out, !.path = path,
                 !.calls = calls]

PruneEv(id) == [NoEv EXCEPT !.op = "prune", !.id = id]

\* Handshake::poll answered h (line 179)
HandshakeEv(h) == [NoEv EXCEPT !.hs = h]

----------------------------------------------------------------------------
(* Http2::new (lines 51-60) *)

Some(bytes) == [some |-> TRUE, bytes |-> bytes]
None == [some |-> FALSE, bytes |-> <<>>]
NoRead == [n |-> 0, ret |-> 0, from |-> "none"]

\* the connection as Http2::new makes it, with handlers rt, facing a peer
\* and a transport that may still do e
new(rt, e, buf, bytes) ==
    /\ router = rt
    /\ disconnected = FALSE
    /\ tasks = <<>>
    /\ state = "Handshake"
    /\ keepalive_timer = "None"
    /\ unread = Some(buf)
    /\ inner = bytes
    /\ pc = "idle" /\ idx = 1 /\ not_ready = TRUE /\ result = "none"
    /\ created = 0 /\ removed = <<>> /\ env = e /\ ev = NoEv
    /\ got = <<>> /\ orig = buf \o bytes /\ rd = NoRead

----------------------------------------------------------------------------
(* Http2::poll (lines 62-196) *)

\* poll has returned Ready or Err: the caller drops the connection
Over == result \in {"Ready", "Err"}

\* poll returns r
Return(r) ==
    /\ result' = r
    /\ pc' = "idle" /\ idx' = 1 /\ not_ready' = TRUE

\* line 77: a pass of the loop begins, over the queue q
StartPass(q) ==
    /\ result' = "none"
    /\ pc' = IF q = <<>> THEN "cleanup" ELSE "tasks"
    /\ idx' = 1 /\ not_ready' = TRUE

\* lines 66-77: the keep-alive timer is polled if there is one
Serve ==
    IF keepalive_timer = "Fired" THEN Return("Ready") ELSE StartPass(tasks)

\* poll is called in Server state (line 64)
PollServer ==
    /\ pc = "idle" /\ ~Over /\ state = "Server"
    /\ Serve
    /\ ev' = NoEv
    /\ UNCHANGED <<state, disconnected, tasks, keepalive_timer, router,
                   created, removed, env, io_vars>>

\* (mutant) the state is taken out, leaving Empty, before the handshake is
\* polled, and put back only on Ready
on_handshake_taken(h) == IF h = "Ready" THEN "Server" ELSE "Empty"

\* lines 178-189: the state after the handshake answered h; the early
\* returns of lines 184 and 187 leave the assignment of line 178 undone
on_handshake(h) == IF h = "Ready" THEN "Server" ELSE state

\* poll is called in another state (lines 177-194): the handshake is polled
\* and answers h; on Ready the call goes on as in Server state (line 194).
\* In Empty state line 191 leaves Empty and line 194 calls poll again,
\* without end.
PollHandshake ==
    /\ pc = "idle" /\ ~Over /\ state # "Server"
    /\ \E h \in {"Ready", "NotReady", "Err"} :
         /\ CASE state = "Handshake" /\ h = "Ready" ->
                   state' = on_handshake(h) /\ Serve
              [] state = "Handshake" /\ h = "NotReady" ->
                   state' = on_handshake(h) /\ Return("NotReady")
              [] state = "Handshake" /\ h = "Err" ->
                   state' = on_handshake(h) /\ Return("Err")
              [] OTHER ->
                   /\ state' = "Empty" /\ result' = "none" /\ pc' = "diverged"
                   /\ UNCHANGED <<idx, not_ready>>
         /\ ev' = HandshakeEv(IF state = "Handshake" THEN h ELSE "skip")
    /\ UNCHANGED <<disconnected, tasks, keepalive_timer, router,
                   created, removed, env, io_vars>>

\* the faults the transport may report in one poll_payload (a fault of the
\* receiver, a failure of release_capacity), where the call is made: the receiver is polled while reof is unset
\* (line 280), capacity is released when the sink reports capacity, not the
\* recorded one (line 295)
FaultChoices(e, capacity) ==
    IF env.faulty /\ ~e.reof
    THEN BOOLEAN \X (IF e.capacity # capacity THEN BOOLEAN ELSE {FALSE})
    ELSE {<<FALSE, FALSE>>}

\* the capacity the sink may report when asked (line 294)
CapChoices(e) == IF e.reof THEN {e.capacity} ELSE 0..env.cap

\* lines 80-114, one iteration of the for loop: the entry at idx
PollEntry ==
    /\ pc = "tasks" /\ idx <= Len(tasks)
    /\ \E c \in CapChoices(tasks[idx]), t \in TaskAnswers(tasks[idx]) :
       \E f \in FaultChoices(tasks[idx], c) :
         LET p == poll_payload(tasks[idx], f[1], c, f[2])
             q == poll_task(p.e, t)
         IN  /\ tasks' = [tasks EXCEPT ![idx] = q.e]
             /\ not_ready' = (not_ready /\ ~q.progress)
             /\ ev' = EntryEv(tasks[idx].id, p.recv, q.call, t, p.grant,
                              p.grant # <<>> /\ f[2])
    /\ idx' = idx + 1
    /\ pc' = IF idx = Len(tasks) THEN "cleanup" ELSE "tasks"
    /\ UNCHANGED <<state, disconnected, keepalive_timer, router, result,
                   created, removed, env, io_vars>>

\* line 118: the while loop of line 117 pops the front entry
can_pop == tasks # <<>> /\ prunable(tasks[1])

\* lines 117-123, one iteration that pops
Cleanup ==
    /\ pc = "cleanup" /\ can_pop
    /\ tasks' = Tail(tasks)
    /\ removed' = Append(removed, tasks[1].id)
    /\ ev' = PruneEv(tasks[1].id)
    /\ UNCHANGED <<state, disconnected, keepalive_timer, router, pc, idx,
                   not_ready, result, created, env, io_vars>>

\* the answers Server::poll can give (line 127)
EngineAnswers ==
    {"None", "NotReady", "Err"} \cup (IF env.streams > 0 THEN {"Some"} ELSE {})

\* whether a new request's HEADERS frame may leave the body open
EndChoices == IF env.chunks > 0 THEN BOOLEAN ELSE {TRUE}

\* (mutant) the engine is polled in every pass
polls_engine_always == TRUE

\* line 126: the engine is polled in this pass
polls_engine == ~disconnected

\* (mutant) a new stream leaves the timer as it is
keep_timer(timer) == timer

\* line 140: Option::take on the timer when a new stream has come
take_timer(timer) == "None"

\* (mutant) the test of line 144 inverted
arm_timer_when_busy(q, timer) ==
    IF q # <<>> /\ timer = "None" THEN "Armed" ELSE timer

\* lines 144-154: the timer after the engine answered not ready
arm_timer(q, timer) ==
    IF q = <<>> /\ timer = "None" THEN "Armed" ELSE timer

\* lines 128-163: the engine answered out; a new stream asks for path, and
\* end says whether its body is already over
on_engine(out, path, end) ==
    CASE out = "None" ->
           [progress |-> TRUE, disconnected |-> TRUE,
            tasks |-> notify_all(tasks), timer |-> keepalive_timer,
            created |-> created, calls |-> <<>>]
      [] out = "Some" ->
           LET n == Entry_new(created + 1, path, end, router)
           IN  [progress |-> TRUE, disconnected |-> disconnected,
                tasks |-> Append(tasks, n.entry),
                timer |-> take_timer(keepalive_timer),
                created |-> created + 1, calls |-> n.calls]
      [] out = "NotReady" ->
           [progress |-> FALSE, disconnected |-> disconnected,
            tasks |-> tasks,
            timer |-> arm_timer(tasks, keepalive_timer),
            created |-> created, calls |-> <<>>]
      [] out = "Err" ->
           [progress |-> FALSE, disconnected |-> TRUE,
            tasks |-> notify_all(tasks), timer |-> "None",
            created |-> created, calls |-> <<>>]

\* (mutant) done as soon as the peer is gone
verdict_on_disconnect(q, disc) == IF disc THEN "Ready" ELSE "NotReady"

\* (mutant) done as soon as the queue is empty
verdict_on_empty(q, disc) == IF q = <<>> THEN "Ready" ELSE "NotReady"

\* lines 167-173: what poll returns when a pass made no progress
verdict(q, disc) == IF q = <<>> /\ disc THEN "Ready" ELSE "NotReady"

\* lines 167-174: return, or go round the loop again
EndPass(nr, q, disc) ==
    IF nr THEN Return(verdict(q, disc)) ELSE StartPass(q)

\* lines 117-173 once the while loop stops: the engine is polled unless the
\* peer is gone, and the pass ends
GetRequest ==
    /\ pc = "cleanup" /\ ~can_pop
    /\ IF polls_engine
       THEN \E out \in EngineAnswers, path \in Paths, end \in EndChoices :
              LET r == on_engine(out, path, end)
              IN  /\ (out # "Some" => path = <<>> /\ end)
                  /\ disconnected' = r.disconnected
                  /\ tasks' = r.tasks
                  /\ keepalive_timer' = r.timer
                  /\ created' = r.created
                  /\ env' = [env EXCEPT !.streams =
                                IF out = "Some" THEN @ - 1 ELSE @]
                  /\ ev' = EngineEv(out, path, r.calls)
                  /\ EndPass(not_ready /\ ~r.progress, r.tasks, r.disconnected)
       ELSE /\ ev' = NoEv
            /\ EndPass(not_ready, tasks, disconnected)
            /\ UNCHANGED <<disconnected, tasks, keepalive_timer, created, env>>
    /\ UNCHANGED <<state, router, removed, io_vars>>

----------------------------------------------------------------------------
(* The environment, between two calls of poll *)

\* the keep-alive timer runs out
TimerFire ==
    /\ pc = "idle" /\ ~Over
    /\ keepalive_timer = "Armed"
    /\ keepalive_timer' = "Fired"
    /\ ev' = NoEv
    /\ UNCHANGED <<state, disconnected, tasks, router, pc, idx, not_ready,
                   result, created, removed, env, io_vars>>

\* a DATA frame of the stream of tasks[i] arrives, the n-th of that stream,
\* with END_STREAM if last
Deliver ==
    /\ pc = "idle" /\ ~Over
    /\ env.chunks > 0
    /\ \E i \in 1..Len(tasks), last \in BOOLEAN :
         LET e == tasks[i]
             n == Len(e.yielded) + Len(e.rbuf) + 1
         IN  /\ ~e.rend
             /\ tasks' = [tasks EXCEPT ![i] =
                   [e EXCEPT !.rbuf = Append(@, <<e.id, n>>), !.rend = last]]
    /\ env' = [env EXCEPT !.chunks = @ - 1]
    /\ ev' = NoEv
    /\ UNCHANGED <<state, disconnected, keepalive_timer, router, pc, idx,
                   not_ready, result, created, removed, io_vars>>

----------------------------------------------------------------------------
(* IoWrapper (lines 305-324) *)

\* the results T::read of the transport can give for a buffer of n bytes
\* (line 321): some of the bytes it holds, none at the end of the stream
InnerReads(n) ==
    IF inner = <<>> \/ n = 0 THEN {0} ELSE 1..Min(n, Len(inner))

\* (mutant) the bytes handed out are not split off what is kept
read_no_split(n, k) ==
    IF unread.some
    THEN LET bytes == unread.bytes
             size == Min(n, Len(bytes))
         IN  [ret |-> size, data |-> SubSeq(bytes, 1, size),
              unread |-> IF Len(bytes) > size THEN Some(bytes) ELSE None,
              inner |-> inner, from |-> "unread"]
    ELSE [ret |-> k, data |-> SubSeq(inner, 1, k), unread |-> None,
          inner |-> SubSeq(inner, k + 1, Len(inner)), from |-> "inner"]

\* IoWrapper::read (lines 311-323) with a buffer of n bytes; k is what the
\* transport's read returns if it is called.  data: the bytes put in buf.
read(n, k) ==
    IF unread.some
    THEN LET bytes == unread.bytes
             size == Min(n, Len(bytes))
         IN  [ret |-> size, data |-> SubSeq(bytes, 1, size),
              unread |-> IF Len(bytes) > size
                         THEN Some(SubSeq(bytes, size + 1, Len(bytes)))
                         ELSE None,
              inner |-> inner, from |-> "unread"]
    ELSE [ret |-> k, data |-> SubSeq(inner, 1, k), unread |-> None,
          inner |-> SubSeq(inner, k + 1, Len(inner)), from |-> "inner"]

\* the protocol engine reads from the IoWrapper
Read ==
    /\ \E n \in 0..MaxBuf : \E k \in InnerReads(n) :
         LET r == read(n, k)
         IN  /\ unread' = r.unread
             /\ inner' = r.inner
             /\ got' = got \o r.data
             /\ rd' = [n |-> n, ret |-> r.ret, from |-> r.from]
    /\ UNCHANGED <<orig, conn_vars>>

----------------------------------------------------------------------------
(* Specifications *)

\* a connection whose requests carry no body
Init ==
    new(<<<<>>>>,
        [streams |-> MaxStreams, chunks |-> 0, cap |-> 0, faulty |-> FALSE],
        <<>>, <<>>)

Next == PollHandshake \/ PollServer \/ PollEntry \/ Cleanup \/ GetRequest
        \/ TimerFire

Spec == Init /\ [][Next]_vars

\* the steps of a call of poll
Driver == PollHandshake \/ PollServer \/ PollEntry \/ Cleanup \/ GetRequest

\* the task of entry id is polled and reports the end of its I/O, its
\* completion or a failure (lines 86-98 and 103-110)
Reports(id) ==
    /\ PollEntry
    /\ tasks[idx].id = id
    /\ <<tasks'[idx].eof, tasks'[idx].error, tasks'[idx].finished>>
         # <<tasks[idx].eof, tasks[idx].error, tasks[idx].finished>>

\* the executor goes on calling poll, a call of poll runs to its return,
\* and no task answers not ready for ever
Fairness ==
    /\ WF_vars(Driver)
    /\ \A id \in 1..MaxStreams : SF_vars(Reports(id))

SpecLive == Init /\ [][Next]_vars /\ Fairness

\* a connection whose requests carry bodies
InitBody ==
    new(<<<<>>>>,
        [streams |-> BodyStreams, chunks |-> MaxChunks, cap |-> MaxCap,
         faulty |-> FALSE],
        <<>>, <<>>)

NextBody == Next \/ Deliver

SpecBody == InitBody /\ [][NextBody]_vars

\* a connection whose receivers and capacity releases may fail
InitFault ==
    new(<<<<>>>>,
        [streams |-> FaultStreams, chunks |-> 0, cap |-> FaultCap,
         faulty |-> TRUE],
        <<>>, <<>>)

SpecFault == InitFault /\ [][Next]_vars

\* a connection with any router
InitRoute ==
    \E rt \in Routers :
        new(rt,
            [streams |-> RouteStreams, chunks |-> 0, cap |-> 0,
             faulty |-> FALSE],
            <<>>, <<>>)

SpecRoute == InitRoute /\ [][Next]_vars

\* the IoWrapper of a new connection, with any opening buffer, over any
\* byte stream
ByteSeqs == SeqsUpTo({"x", "y"}, MaxBytes)

InitIo ==
    \E buf \in ByteSeqs, bytes \in ByteSeqs :
        new(<<>>,
            [streams |-> 0, chunks |-> 0, cap |-> 0, faulty |-> FALSE],
            buf, bytes)

NextIo == Read

SpecIo == InitIo /\ [][NextIo]_vars

----------------------------------------------------------------------------
(* Properties of the queue of entries *)

Ids(q) == {q[i].id : i \in 1..Len(q)}

\* the completion predicate of the specification, on an entry's flags
Completed(e) == (e.eof /\ e.finished) \/ e.error

\* C1: an entry leaves the queue only in a step that finds it at the head
\* with (eof and finished) or error set, and the rest of the queue is what
\* stays; so the entries popped so far are the first arrivals, in arrival
\* order, and the queue holds the arrivals after them, in arrival order.
C1_RemovalStep ==
    \A i \in 1..Len(tasks) :
        tasks[i].id \notin Ids(tasks') =>
            /\ i = 1
            /\ Completed(tasks[1])
            /\ Ids(tasks') = Ids(tasks) \ {tasks[1].id}
            /\ removed' = Append(removed, tasks[1].id)

C1_ArrivalOrder ==
    /\ removed = [i \in 1..Len(removed) |-> i]
    /\ Len(removed) + Len(tasks) = created
    /\ \A i \in 1..Len(tasks) : tasks[i].id = Len(removed) + i

C1_HeadOnlyRemoval == [][C1_RemovalStep]_vars /\ []C1_ArrivalOrder

\* two entries were popped, in order, the second in the last step, while a
\* later arrival is still in the queue
C1_Witness ==
    /\ ev.op = "prune" /\ ev.id = 2
    /\ removed = <<1, 2>>
    /\ tasks # <<>>

\* C2: an entry behind the head with eof and finished set stays in the
\* queue with its eof, error and finished flags as they are; every pass
\* visits every entry, and the visit of such an entry calls neither method
\* of its task.  (With C1: it leaves only once every older entry has left.)
C2_Step ==
    /\ \A k \in 2..Len(tasks) :
          (tasks[k].eof /\ tasks[k].finished) =>
             /\ \E j \in 1..Len(tasks') :
                   /\ tasks'[j].id = tasks[k].id
                   /\ tasks'[j].eof = tasks[k].eof
                   /\ tasks'[j].error = tasks[k].error
                   /\ tasks'[j].finished = tasks[k].finished
             /\ (pc = "tasks" /\ idx = k) =>
                   (ev'.op = "entry" /\ ev'.id = tasks[k].id
                    /\ ev'.call = "none")
    /\ (pc # "tasks" /\ pc' = "tasks") => idx' = 1
    /\ pc = "tasks" =>
          /\ ev'.op = "entry" /\ ev'.id = tasks[idx].id
          /\ idx' = idx + 1
          /\ pc' # "tasks" => idx = Len(tasks)
    /\ (pc = "idle" /\ pc' = "cleanup") => tasks = <<>>

C2_FinishedBehindOpenIsNoOp == [][C2_Step]_vars

\* three entries, the middle one finished first and was just visited
\* without a call to its task, the head still open
C2_Witness ==
    /\ Len(tasks) = 3
    /\ ~Completed(tasks[1]) /\ ~Completed(tasks[3])
    /\ tasks[2].eof /\ tasks[2].finished
    /\ ev.op = "entry" /\ ev.id = tasks[2].id /\ ev.call = "none"

\* C3: once disconnected is set it stays set, no step polls the engine,
\* the engine yields no stream and no entry joins the queue.
C3_Step ==
    disconnected =>
        /\ disconnected'
        /\ ev'.op # "engine"
        /\ env'.streams = env.streams
        /\ created' = created
        /\ Ids(tasks') \subseteq Ids(tasks)

C3_DisconnectedIsFinal == [][C3_Step]_vars

\* a pass ran and returned pending after the peer was gone, without a poll
\* of the engine, though the peer had a stream left to open
C3_Witness ==
    /\ disconnected /\ env.streams > 0 /\ tasks # <<>>
    /\ pc = "idle" /\ result = "NotReady" /\ ev = NoEv

\* C4: the timer is made only in a step in which the engine answers not
\* ready, the queue is empty and there is no timer; a step that adds an
\* entry leaves no timer; so a timer exists only while the queue is empty.
C4_Step ==
    /\ (keepalive_timer = "None" /\ keepalive_timer' # "None") =>
          /\ ev'.op = "engine" /\ ev'.engine = "NotReady"
          /\ tasks = <<>> /\ tasks' = <<>>
          /\ keepalive_timer' = "Armed"
    /\ ~(Ids(tasks') \subseteq Ids(tasks)) => keepalive_timer' = "None"

C4_TimerOnlyWhenIdle == keepalive_timer # "None" => tasks = <<>>

C4_TimerArmedOnlyWhenEmpty == [][C4_Step]_vars /\ []C4_TimerOnlyWhenIdle

\* the timer is armed again after an exchange has come and gone
C4_Witness == keepalive_timer = "Armed" /\ removed # <<>>

\* C5: in Server state poll returns Ready only when the timer had fired at
\* the start of the call, or at the end of a pass without progress that
\* leaves the queue empty and the peer closed; a pass without progress
\* returns, Ready in that case and NotReady in every other; a pass with
\* progress does not return.
NoProgress == not_ready /\ ev'.engine \notin {"None", "Some"}

C5_Step ==
    /\ (state = "Server" /\ pc = "idle" /\ pc' = "idle" /\ result' # result) =>
          (keepalive_timer = "Fired" /\ result' = "Ready")
    /\ (pc = "cleanup" /\ pc' = "idle") =>
          /\ NoProgress
          /\ IF tasks' = <<>> /\ disconnected'
             THEN result' = "Ready" ELSE result' = "NotReady"
    /\ (pc = "cleanup" /\ NoProgress /\ ev'.op # "prune") =>
          (pc' = "idle" /\ result' \in {"Ready", "NotReady"})
    /\ (result' = "Ready" /\ result # "Ready") =>
          \/ state = "Server" /\ pc = "idle" /\ keepalive_timer = "Fired"
          \/ pc = "cleanup" /\ NoProgress /\ tasks' = <<>> /\ disconnected'

C5_State ==
    /\ (state = "Server" /\ pc = "idle" /\ result = "NotReady") =>
          ~(tasks = <<>> /\ disconnected)
    /\ result = "Ready" => (disconnected \/ keepalive_timer = "Fired")

C5_DoneExactlyWhen == [][C5_Step]_vars /\ []C5_State

\* poll returned Ready after the peer closed and the last entry was popped
C5_Witness ==
    /\ result = "Ready" /\ disconnected /\ keepalive_timer = "None"
    /\ tasks = <<>> /\ removed # <<>>

----------------------------------------------------------------------------
(* Properties of the body flow *)

\* C6: the amount of every capacity release made by a visit of an entry is
\* the capacity the sink reports now less the capacity the entry had
\* recorded, and no release is made when the two are equal.
C6_Step ==
    pc = "tasks" =>
        LET old == tasks[idx].capacity
            now == tasks'[idx].capacity
        IN  /\ ev'.grant # <<>> => ev'.grant = <<now - old>>
            /\ now = old => ev'.grant = <<>>

C6_GrantIsDelta == [][C6_Step]_vars

\* C7: a visit of an entry that has not seen the end of its body leaves no
\* chunk in its receiver, and when poll returns NotReady no entry's
\* receiver holds a chunk.
C7_Step ==
    /\ (pc = "tasks" /\ ~tasks[idx].reof) => tasks'[idx].rbuf = <<>>
    /\ (pc = "cleanup" /\ pc' = "idle" /\ result' = "NotReady") =>
          \A i \in 1..Len(tasks') : tasks'[i].rbuf = <<>>

C7_BodyDrained == [][C7_Step]_vars

\* C8: what an entry's sink has been fed is a prefix of what its receiver
\* has yielded, and its n-th chunk is the n-th chunk of the entry's own
\* stream; once reof is set the sink is fed nothing more.
C8_State ==
    \A i \in 1..Len(tasks) :
        /\ IsPrefix(tasks[i].fed, tasks[i].yielded)
        /\ \A n \in 1..Len(tasks[i].fed) :
              tasks[i].fed[n] = <<tasks[i].id, n>>

C8_Step ==
    \A i \in 1..Len(tasks), j \in 1..Len(tasks') :
        (tasks'[j].id = tasks[i].id /\ tasks[i].reof) =>
            tasks'[j].fed = tasks[i].fed

----------------------------------------------------------------------------
(* Properties of the dispatch *)

\* the handlers whose prefix is a prefix of path
Matching(rt, path) == {i \in 1..Len(rt) : IsPrefix(rt[i], path)}

\* the first of them in registration order, NotFound if there is none
FirstMatching(rt, path) ==
    IF Matching(rt, path) = {} THEN NotFound
    ELSE CHOOSE i \in Matching(rt, path) : \A j \in Matching(rt, path) : i <= j

\* C9: a step in which the engine yields a stream appends exactly one entry
\* and changes no other; the entry's task is that of the first handler, in
\* registration order, whose prefix is a prefix of the path, and only that
\* handler was called; with no such handler no handler is called and the
\* task is the not-found reply.  No other step adds an entry.
C9_Step ==
    /\ env'.streams # env.streams =>
          /\ env'.streams = env.streams - 1
          /\ created' = created + 1
          /\ Len(tasks') = Len(tasks) + 1
          /\ SubSeq(tasks', 1, Len(tasks)) = tasks
          /\ LET e == tasks'[Len(tasks')]
                 h == FirstMatching(router, ev'.path)
             IN  /\ e.id = created'
                 /\ e.task = h
                 /\ ev'.calls = IF h = NotFound THEN <<>> ELSE <<h>>
    /\ env'.streams = env.streams =>
          (created' = created /\ Ids(tasks') \subseteq Ids(tasks))

C9_FirstMatchingHandler == [][C9_Step]_vars

\* a stream was dispatched to the first of two handlers that both match
C9_Witness ==
    /\ ev.op = "engine" /\ ev.engine = "Some"
    /\ Matching(router, ev.path) = {1, 2}
    /\ router[1] # router[2]
    /\ tasks[Len(tasks)].task = 1

----------------------------------------------------------------------------
(* Properties of IoWrapper *)

\* what IoWrapper still holds in its buffer
Unread == IF unread.some THEN unread.bytes ELSE <<>>

\* C10: the bytes returned so far, then the buffered bytes still held, then
\* the bytes the transport still holds, are the opening buffer followed by
\* the transport's bytes; a read returns at most the caller's buffer size;
\* the transport is read only once nothing is buffered, and a read that
\* cannot take all of the buffer keeps the rest.
C10_State ==
    /\ got \o Unread \o inner = orig
    /\ rd.ret <= rd.n

C10_Step ==
    /\ inner' # inner => ~unread.some
    /\ Unread # <<>> =>
          /\ rd'.from = "unread"
          /\ rd'.ret = Min(rd'.n, Len(Unread))
          /\ got' = got \o SubSeq(Unread, 1, rd'.ret)
          /\ inner' = inner
    /\ Len(got') >= Len(got)

C10_PrefixThenTransport == [][C10_Step]_vars /\ []C10_State

\* three bytes have been returned of a buffer and a stream of four, the
\* last of them by a read of the transport that was offered room for two
C10_Witness ==
    /\ Len(orig) = 4 /\ Len(got) = 3
    /\ rd.from = "inner" /\ rd.n = 2 /\ rd.ret = 1
    /\ inner # <<>>

----------------------------------------------------------------------------
(* eof and finished *)

\* the step visited the entry e and called method call of its task, which
\* gave one of the answers in answers
Polled(e, call, answers) ==
    /\ ev'.op = "entry" /\ ev'.id = e.id
    /\ ev'.call = call /\ ev'.ans \in answers

C11_Step ==
    /\ \A i \in 1..Len(tasks), j \in 1..Len(tasks') :
         tasks[i].id = tasks'[j].id =>
           LET e == tasks[i]
               f == tasks'[j]
           IN  /\ e.eof => f.eof
               /\ ~e.eof /\ f.eof =>
                    Polled(e, "poll_io", {"ReadyTrue", "ReadyFalse", "Err"})
               /\ ~e.finished /\ f.finished =>
                    /\ \/ Polled(e, "poll_io", {"ReadyTrue"})
                       \/ Polled(e, "poll", {"Ready", "Err"})
                    /\ f.eof
    /\ \A j \in 1..Len(tasks') :
         tasks'[j].id \notin Ids(tasks) =>
           ~tasks'[j].eof /\ ~tasks'[j].finished

C11_State == \A i \in 1..Len(tasks) : tasks[i].finished => tasks[i].eof

\* C11: an entry starts with eof and finished unset; its eof, once set, stays
\* set, and is set only in a step where poll_io on its task answered Ready or
\* Err; its finished is set only in a step where poll_io on its task
\* answered Ready(true) or poll on its task answered Ready or Err, and no
\* entry has finished set with eof unset.
C11_EofThenFinished == [][C11_Step]_vars /\ []C11_State

\* an entry whose poll_io answered Ready(false) in an earlier visit has just
\* been finished by poll, behind an entry that is still open
C11_Witness ==
    /\ Len(tasks) >= 2 /\ ~tasks[1].eof
    /\ ev.op = "entry" /\ ev.id = tasks[2].id
    /\ ev.call = "poll" /\ ev.ans = "Ready"
    /\ tasks[2].eof /\ tasks[2].finished /\ ~tasks[2].error

----------------------------------------------------------------------------
(* failures of a task *)

\* the flags of entry e, without its reset count
Flags(e) == <<e.eof, e.error, e.finished>>

C12_Step ==
    pc = "tasks" /\ idx <= Len(tasks) =>
      LET e == tasks[idx]
          f == tasks'[idx]
      IN  /\ Polled(e, "poll_io", {"Err"}) =>
                f.eof /\ f.error /\ f.finished = e.finished
                /\ f.resets = e.resets + 1
          /\ Polled(e, "poll", {"Err"}) =>
                f.error /\ f.finished /\ f.eof = e.eof
                /\ f.resets = e.resets
          /\ f.resets # e.resets => Polled(e, "poll_io", {"Err"})
          /\ Len(tasks') = Len(tasks)
          /\ \A j \in 1..Len(tasks) : j # idx => tasks'[j] = tasks[j]
          /\ disconnected' = disconnected
          /\ state' = state

C12_State == \A i \in 1..Len(tasks) : tasks[i].resets <= 1

\* C12: a step where poll_io on an entry's task answers Err sets that
\* entry's eof and error and sends one reset on its stream; a step where poll
\* on an entry's task answers Err sets its error and finished and sends no
\* reset; a reset is sent in no other step; the step leaves every other
\* entry, disconnected and state as they were; no entry's stream is reset
\* more than once.
C12_TaskFailure == [][C12_Step]_vars /\ []C12_State

\* poll on the second entry's task has just failed, after poll_io on the
\* first entry's task failed and reset its stream
C12_Witness ==
    /\ Len(tasks) >= 2
    /\ tasks[1].error /\ tasks[1].resets = 1
    /\ ev.op = "entry" /\ ev.id = tasks[2].id
    /\ ev.call = "poll" /\ ev.ans = "Err"
    /\ tasks[2].error /\ tasks[2].finished /\ tasks[2].resets = 0

----------------------------------------------------------------------------
(* faults of the body *)

\* the visit of an entry in which its receiver failed or a release of
\* capacity failed
BodyFault == ev'.op = "entry" /\ (ev'.recv = "Err" \/ ev'.gfail)

C13_Step ==
    /\ pc = "tasks" /\ idx <= Len(tasks) /\ BodyFault =>
         LET e == tasks[idx]
             f == tasks'[idx]
             t == poll_task(e, ev'.ans)
         IN  /\ f.perr
             /\ Flags(f) = Flags(t.e) /\ f.resets = t.e.resets
             /\ ev'.ans \in {"skip", "NotReady"} => Flags(f) = Flags(e)
             /\ not_ready' = (not_ready /\ ~t.progress)
             /\ Len(tasks') = Len(tasks) /\ removed' = removed
             /\ \A j \in 1..Len(tasks) : j # idx => tasks'[j] = tasks[j]
             /\ disconnected' = disconnected
             /\ result' = "none" /\ pc' # "idle"
    /\ \A i \in 1..Len(tasks), j \in 1..Len(tasks') :
         tasks[i].id = tasks'[j].id /\ tasks[i].perr # tasks'[j].perr =>
           BodyFault /\ ev'.id = tasks[i].id /\ tasks'[j].perr

C13_State == state = "Server" => result # "Err"

\* C13: a visit of an entry in which its receiver fails or a release of
\* capacity fails sets the error of that entry's sink and of no other; the
\* entry's eof, error and finished are what the answer of its task alone
\* makes them (unchanged if the task was not polled or answered not ready),
\* no other entry changes, none is removed, disconnected is unchanged, the
\* fault counts neither as progress nor as a reason to return, and poll
\* never returns Err once the state is Server.
C13_BodyFaultStaysInSink == [][C13_Step]_vars /\ []C13_State

\* the receiver of the second entry and its release of capacity have both
\* just failed while its task answered not ready; the first entry's sink
\* has no error
C13_Witness ==
    /\ Len(tasks) >= 2 /\ ~tasks[1].perr
    /\ ev.op = "entry" /\ ev.id = tasks[2].id
    /\ ev.recv = "Err" /\ ev.gfail /\ ev.ans = "NotReady"
    /\ tasks[2].perr /\ Flags(tasks[2]) = <<FALSE, FALSE, FALSE>>

----------------------------------------------------------------------------
(* the handshake *)

C14_Step ==
    /\ state = "Server" => state' = "Server"
    /\ state' # state => ev'.hs = "Ready"
    /\ ev'.hs = "NotReady" =>
         state' = state /\ result' = "NotReady" /\ pc' = "idle"
    /\ ev'.hs = "Err" =>
         state' = state /\ result' = "Err" /\ pc' = "idle"
    /\ ev'.hs = "Ready" =>
         /\ state = "Handshake" /\ state' = "Server"
         /\ result' = "none" /\ pc' = "cleanup" /\ not_ready'

C14_State ==
    /\ state \in {"Handshake", "Server"}
    /\ pc # "diverged"
    /\ state = "Handshake" =>
         tasks = <<>> /\ keepalive_timer = "None" /\ ~disconnected

\* C14: state is Handshake or Server in every state, never Empty; a poll in
\* which the handshake answers not ready returns NotReady and one in which
\* it fails returns Err, both leaving state as it was; a poll in which it
\* answers Ready sets state to Server and goes on, in the same call, with
\* the serving pass; state never leaves Server; while state is Handshake
\* tasks is empty, there is no keep-alive timer and disconnected is false.
C14_HandshakeThenServer == [][C14_Step]_vars /\ []C14_State

\* the handshake has just answered Ready: the state is Server and the call
\* is inside its first serving pass
C14_Witness ==
    /\ ev.hs = "Ready" /\ state = "Server"
    /\ pc = "cleanup" /\ result = "none" /\ created = 0

----------------------------------------------------------------------------
(* the end of the connection *)

\* the step polled the engine, which reported the end of the connection or
\* a failure
Closure == ev'.op = "engine" /\ ev'.engine \in {"None", "Err"}

C15_Step ==
    /\ Closure =>
         /\ ~disconnected /\ disconnected'
         /\ Len(tasks') = Len(tasks) /\ removed' = removed
         /\ \A i \in 1..Len(tasks) :
              tasks'[i] = [tasks[i] EXCEPT !.notified = @ + 1]
         /\ ev'.engine = "Err" => keepalive_timer' = "None"
    /\ \A i \in 1..Len(tasks), j \in 1..Len(tasks') :
         tasks[i].id = tasks'[j].id /\ tasks[i].notified # tasks'[j].notified
           => Closure

C15_State ==
    \A i \in 1..Len(tasks) :
        tasks[i].notified = (IF disconnected THEN 1 ELSE 0)

\* C15: the step in which the engine reports the end of the connection or
\* fails sets disconnected, calls Task::disconnected once on every entry of
\* the queue and removes none; no other step calls it, so no entry is told
\* more than once; when the engine fails the step also leaves no keep-alive
\* timer.
C15_AllNotifiedOnce == [][C15_Step]_vars /\ []C15_State

\* the engine has just failed with two entries in the queue, both told
C15_Witness ==
    /\ ev.op = "engine" /\ ev.engine = "Err" /\ disconnected
    /\ Len(tasks) >= 2
    /\ \A i \in 1..Len(tasks) : tasks[i].notified = 1

----------------------------------------------------------------------------
(* draining a closed connection *)

C16_State ==
    pc = "idle" /\ disconnected /\ tasks = <<>> => result = "Ready"

\* C16: if poll goes on being called and every task polled again and again
\* reports in the end, then once disconnected is set the queue becomes
\* empty and poll returns Ready; and no call of poll returns NotReady
\* leaving disconnected set and the queue empty, so the call that pops the
\* last entry of a closed connection is the one that returns Ready.
C16_ClosedConnectionDrains ==
    /\ disconnected ~> (tasks = <<>> /\ result = "Ready")
    /\ []C16_State

\* the last entry of a closed connection has just been popped, in a pass
\* later than the one that saw the closure
C16_Witness ==
    /\ ev.op = "prune" /\ pc = "cleanup"
    /\ disconnected /\ tasks = <<>> /\ Len(removed) >= 2

----------------------------------------------------------------------------
(* polling a task after its failure *)

C17_Step ==
    pc = "tasks" /\ idx <= Len(tasks) /\ tasks[idx].error
        /\ ev'.op = "entry" /\ ev'.id = tasks[idx].id
      => ev'.call = "none"

\* C17: no method of the task of an entry whose error is set is called:
\* the visit of such an entry calls neither poll_io nor poll.
C17_ErroredTaskNotPolled == [][C17_Step]_vars

----------------------------------------------------------------------------
(* reads of zero bytes *)

C18_Step ==
    rd = NoRead /\ unread.bytes = <<>> /\ rd'.n > 0 => rd'.from = "inner"

C18_State == rd.n > 0 /\ rd.ret = 0 => rd.from = "inner"

\* C18: on a wrapper made with an empty opening buffer the first read into
\* a buffer that is not empty is the transport's; and a read into a buffer
\* that is not empty returns 0 only if it is the transport's read that
\* returned 0.
C18_ZeroOnlyFromTransport == [][C18_Step]_vars /\ []C18_State

----------------------------------------------------------------------------
(* what poll leaves behind when it returns *)

\* C19: whenever poll has returned Ready, on the fired timer or on the
\* closed connection, tasks is empty.
C19_DoneMeansEmpty == result = "Ready" => tasks = <<>>

\* poll has returned Ready on the fired keep-alive timer of a connection
\* that served requests and is not closed
C19_Witness ==
    /\ result = "Ready" /\ pc = "idle" /\ keepalive_timer = "Fired"
    /\ ~disconnected /\ removed # <<>> /\ tasks = <<>>

\* C20: whenever poll has returned NotReady in Server state leaving tasks
\* empty and disconnected unset, there is a keep-alive timer; so also when
\* the last entry was popped in a pass that made no progress, because its
\* task failed.
C20_IdleHasTimer ==
    /\ state = "Server" /\ pc = "idle" /\ result = "NotReady"
    /\ tasks = <<>> /\ ~disconnected
    => keepalive_timer # "None"

\* the last entry of an open connection has just been popped in a pass
\* that made no progress: its task failed in this pass, and the engine is
\* about to be polled
C20_Witness ==
    /\ ev.op = "prune" /\ pc = "cleanup" /\ not_ready
    /\ tasks = <<>> /\ ~disconnected /\ keepalive_timer = "None"

====
